---------------------------- MODULE Spec2Model ----------------------------
(***************************************************************************)
(* Restaurant voice agent: the intent classifier and response generator of *)
(* ai_agent.py, the TwiML responses of twilio_integration.py, and the      *)
(* session registry and webhook handlers of app.py.                        *)
(*                                                                         *)
(* Text is modelled by TLA+ strings; lower(), substring search, split and  *)
(* join are computed character by character.                               *)
(***************************************************************************)
EXTENDS Integers, Sequences, FiniteSets, TLC

VARIABLES
    sessions,      \* app.py `sessions`: call_sid -> CallSession
    tasks,         \* per webhook, how many of its coroutines are suspended at `await request.form()`
    log,           \* the request served last, and what its handler wrote to the logger
    response,      \* the HTTP response the handler that ran last returned
    utterance,     \* ai_agent under test: the message handed to the agent
    analysis,      \* ai_agent under test: result of analyze_intent(utterance)
    reply,         \* ai_agent under test: result of generate_response(utterance, [], analysis), "" before
    generator_call, \* the arguments get_ai_response gave generate_response for the request served last
    has_openai,    \* generate_response under test: RestaurantAIAgent.has_openai
    given_history, \* generate_response under test: the conversation_history handed in
    replies,       \* generate_response under test: what each invocation so far returned
    stt,           \* speech_to_text under test: what the services do, and what it returns
    tts            \* text_to_speech under test: what the service does, and what it returns

vars == <<sessions, tasks, log, response, utterance, analysis, reply,
          generator_call, has_openai, given_history, replies, stt, tts>>

\* The state of the webhooks, and the state of the components exercised on their own.
webhook_vars == <<sessions, tasks, log, response, generator_call>>
generate_vars == <<has_openai, given_history, replies>>
service_vars == <<stt, tts>>
under_test == <<utterance, analysis, reply, has_openai, given_history, replies, stt, tts>>

None == [none |-> TRUE]

-----------------------------------------------------------------------------
(* Bounds *)

MaxTurns == 2        \* speech results the sessions of the registry answer in all (two turns each)
MaxTasks == 2        \* webhook requests that can be in flight at the same time
MaxFragments == 2    \* fragments concatenated into an utterance handed to the agent
MaxCalls == 2        \* invocations of generate_response on the same arguments

-----------------------------------------------------------------------------
(* Strings *)

UPPERCASE == "ABCDEFGHIJKLMNOPQRSTUVWXYZ"
LOWERCASE == "abcdefghijklmnopqrstuvwxyz"

lower_char(c) ==
    IF \E i \in 1..Len(UPPERCASE) : SubSeq(UPPERCASE, i, i) = c
    THEN LET i == CHOOSE j \in 1..Len(UPPERCASE) : SubSeq(UPPERCASE, j, j) = c
         IN SubSeq(LOWERCASE, i, i)
    ELSE c

\* Python `s.lower()`: every character lowered, by halves to keep the recursion shallow.
RECURSIVE lower(_)
lower(s) ==
    IF s = "" THEN ""
    ELSE IF Len(s) = 1 THEN lower_char(s)
    ELSE LET half == Len(s) \div 2
         IN lower(SubSeq(s, 1, half)) \o lower(SubSeq(s, half + 1, Len(s)))

\* Python `keyword in message`: keyword occurs in message as a substring.
contains(message, keyword) ==
    \E i \in 1..(Len(message) - Len(keyword) + 1) :
        SubSeq(message, i, i + Len(keyword) - 1) = keyword

\* Python `x in list`
in_list(x, list) == \E i \in 1..Len(list) : list[i] = x

\* Where sep occurs in text.
occurrences(text, sep) ==
    {i \in 1..(Len(text) - Len(sep) + 1) : SubSeq(text, i, i + Len(sep) - 1) = sep}

\* Python `text.split(sep)` for a non-empty separator: cut at the leftmost occurrence, go on.
RECURSIVE split(_, _)
split(text, sep) ==
    IF occurrences(text, sep) = {} THEN <<text>>
    ELSE LET at == CHOOSE i \in occurrences(text, sep) :
                       \A j \in occurrences(text, sep) : i <= j
         IN <<SubSeq(text, 1, at - 1)>> \o split(SubSeq(text, at + Len(sep), Len(text)), sep)

\* Python `sep.join(list)`
RECURSIVE join(_, _)
join(sep, list) ==
    IF list = <<>> THEN ""
    ELSE IF Len(list) = 1 THEN list[1]
    ELSE list[1] \o sep \o join(sep, Tail(list))

-----------------------------------------------------------------------------
(* ai_agent.py: RestaurantAIAgent *)

\* The restaurant facts, as read when no environment variable overrides them.
restaurant_info ==
    [ name            |-> "Your Restaurant Name",
      address         |-> "123 Restaurant Street, City, State 12345",
      hours           |-> "Open from 10 AM to 10 PM daily",
      menu_categories |-> split("Appetizers, Main Courses, Desserts, Beverages", ", "),
      delivery_policy |-> "We offer delivery within a 5-mile radius from 11 AM to 9 PM",
      phone           |-> "Phone Number" ]

\* The keyword table, in the order the dict is written (its iteration order).
intent_keywords ==
    << [intent |-> "greeting",
        keywords |-> <<"hello", "hi", "hey", "good morning", "good afternoon", "good evening">>],
       [intent |-> "hours_inquiry",
        keywords |-> <<"open", "close", "hours", "time", "when", "what time", "what are your hours">>],
       [intent |-> "location_inquiry",
        keywords |-> <<"where", "address", "location", "find", "direction", "located">>],
       [intent |-> "menu_inquiry",
        keywords |-> <<"menu", "food", "what do you", "what's on", "offer", "have">>],
       [intent |-> "order_request",
        keywords |-> <<"order", "place", "buy", "get", "delivery", "takeout", "take out">>],
       [intent |-> "reservation_request",
        keywords |-> <<"reservation", "book", "table", "seat", "reserve">>],
       [intent |-> "complaint",
        keywords |-> <<"problem", "issue", "wrong", "not", "complaint", "angry", "upset", "terrible", "bad">>],
       [intent |-> "delivery_inquiry",
        keywords |-> <<"delivery", "takeout", "take out", "pickup", "pick up", "carryout">>],
       [intent |-> "closing",
        keywords |-> <<"bye", "goodbye", "thanks", "thank you", "that's all", "see you", "later">>],
       [intent |-> "contact_staff",
        keywords |-> <<"speak", "talk", "manager", "human", "staff", "person", "someone">> ] >>

escalation_intents == <<"order_request", "reservation_request", "complaint", "contact_staff">>

\* Variant: `detected_intents.insert(0, intent)`, the intent is put at the front.
scan_keywords_prepending(intent, keywords, message_lower, detected_intents) ==
    IF /\ \E k \in 1..Len(keywords) : contains(message_lower, keywords[k])
       /\ ~in_list(intent, detected_intents)
    THEN <<intent>> \o detected_intents
    ELSE detected_intents

\* Variant: only the first keyword of each intent is looked for.
scan_keywords_first_keyword_only(intent, keywords, message_lower, detected_intents) ==
    IF /\ contains(message_lower, keywords[1])
       /\ ~in_list(intent, detected_intents)
    THEN Append(detected_intents, intent)
    ELSE detected_intents

\* The inner loop of analyze_intent, `for keyword in keywords`: the first keyword found
\* in the message appends the intent unless it is listed; every later one finds it listed.
scan_keywords(intent, keywords, message_lower, detected_intents) ==
    IF /\ \E k \in 1..Len(keywords) : contains(message_lower, keywords[k])
       /\ ~in_list(intent, detected_intents)
    THEN Append(detected_intents, intent)
    ELSE detected_intents

\* The outer loop of analyze_intent: `for intent, keywords in intent_keywords.items()`.
RECURSIVE scan_intents(_, _, _)
scan_intents(table, message_lower, detected_intents) ==
    IF table = <<>> THEN detected_intents
    ELSE scan_intents(Tail(table), message_lower,
            scan_keywords(Head(table).intent, Head(table).keywords, message_lower, detected_intents))

\* Variant: only the primary intent is looked up in escalation_intents.
any_escalation_intent_primary_only(detected_intents) ==
    in_list(detected_intents[1], escalation_intents)

\* `any(intent in escalation_intents for intent in detected_intents)`
any_escalation_intent(detected_intents) ==
    \E i \in 1..Len(detected_intents) : in_list(detected_intents[i], escalation_intents)

\* Variant: the keywords are looked for in the message as it was spoken.
analyze_intent_case_sensitive(user_message) ==
    LET found == scan_intents(intent_keywords, user_message, <<>>)
        detected_intents == IF found = <<>> THEN <<"general_inquiry">> ELSE found
    IN [ primary_intent       |-> detected_intents[1],
         all_detected_intents |-> detected_intents,
         escalation_needed    |-> any_escalation_intent(detected_intents) ]

analyze_intent(user_message) ==
    LET message_lower == lower(user_message)
        found == scan_intents(intent_keywords, message_lower, <<>>)
        detected_intents == IF found = <<>> THEN <<"general_inquiry">> ELSE found
    IN [ primary_intent       |-> detected_intents[1],
         all_detected_intents |-> detected_intents,
         escalation_needed    |-> any_escalation_intent(detected_intents) ]

\* Variant: the order/delivery test comes first.
_generate_mock_response_order_first(user_message, primary_intent) ==
    LET m == lower(user_message) IN
    IF contains(m, "order") \/ contains(m, "delivery")
    THEN "I'd be happy to connect you with our staff who can help you place your order."
    ELSE IF contains(m, "open") \/ contains(m, "hour")
    THEN "We are " \o lower(restaurant_info.hours) \o "."
    ELSE IF contains(m, "where") \/ contains(m, "address")
    THEN "We are located at " \o restaurant_info.address \o "."
    ELSE IF contains(m, "menu") \/ contains(m, "food")
    THEN "We offer " \o join(", ", restaurant_info.menu_categories) \o "."
    ELSE "Thank you for calling " \o restaurant_info.name \o ". We are "
            \o lower(restaurant_info.hours) \o "."

_generate_mock_response(user_message, primary_intent) ==
    LET m == lower(user_message) IN
    IF contains(m, "open") \/ contains(m, "hour")
    THEN "We are " \o lower(restaurant_info.hours) \o "."
    ELSE IF contains(m, "where") \/ contains(m, "address")
    THEN "We are located at " \o restaurant_info.address \o "."
    ELSE IF contains(m, "menu") \/ contains(m, "food")
    THEN "We offer " \o join(", ", restaurant_info.menu_categories) \o "."
    ELSE IF contains(m, "order") \/ contains(m, "delivery")
    THEN "I'd be happy to connect you with our staff who can help you place your order."
    ELSE "Thank you for calling " \o restaurant_info.name \o ". We are "
            \o lower(restaurant_info.hours) \o "."

\* Variant: the hours are `restaurant_info['hours']` as configured, not lower-cased.
generate_response_hours_as_configured(user_message, conversation_history, intent_analysis) ==
    LET given == IF intent_analysis = None THEN analyze_intent(user_message) ELSE intent_analysis
        primary_intent == given.primary_intent IN
    IF primary_intent = "hours_inquiry"
    THEN "We are " \o restaurant_info.hours \o "."
    ELSE "Thank you for calling " \o restaurant_info.name \o "."

\* Variant: a message that asks for the hours is answered with them whatever
\* intent_analysis says.
generate_response_keywords_first(user_message, conversation_history, intent_analysis) ==
    LET given == IF intent_analysis = None THEN analyze_intent(user_message) ELSE intent_analysis
        primary_intent == given.primary_intent IN
    IF contains(lower(user_message), "open")
    THEN "We are " \o lower(restaurant_info.hours) \o "."
    ELSE IF primary_intent = "greeting"
    THEN "Hello! Thank you for calling " \o restaurant_info.name \o ". How can I assist you today?"
    ELSE IF primary_intent \in {"order_request", "reservation_request", "complaint"}
    THEN "I'd be happy to connect you with our staff who can help you with that."
    ELSE _generate_mock_response(user_message, primary_intent)

generate_response(user_message, conversation_history, intent_analysis) ==
    LET given == IF intent_analysis = None THEN analyze_intent(user_message) ELSE intent_analysis
        primary_intent == given.primary_intent IN
    IF primary_intent = "greeting"
    THEN "Hello! Thank you for calling " \o restaurant_info.name \o ". How can I assist you today?"
    ELSE IF primary_intent = "hours_inquiry"
    THEN "We are " \o lower(restaurant_info.hours) \o "."
    ELSE IF primary_intent = "location_inquiry"
    THEN "We are located at " \o restaurant_info.address \o "."
    ELSE IF primary_intent = "menu_inquiry"
    THEN "We offer " \o join(", ", restaurant_info.menu_categories)
            \o ". For more details, please speak with our staff."
    ELSE IF primary_intent \in {"order_request", "reservation_request", "complaint"}
    THEN "I'd be happy to connect you with our staff who can help you with that."
    ELSE IF primary_intent = "delivery_inquiry"
    THEN restaurant_info.delivery_policy \o "."
    ELSE IF primary_intent = "closing"
    THEN "Thank you for calling " \o restaurant_info.name \o ". Have a great day!"
    ELSE IF primary_intent = "contact_staff"
    THEN "I'll connect you with our staff who can better assist you."
    ELSE _generate_mock_response(user_message, primary_intent)

needs_escalation(user_message, conversation_history, intent_analysis) ==
    intent_analysis.escalation_needed

-----------------------------------------------------------------------------
(* The agent on its own: one message is classified, then answered *)

\* Pieces of caller speech; an utterance is up to MaxFragments of them in a row.
Fragments ==
    { "What time do you open?", "I'd like to make a reservation for two",
      "Do you sell gift cards", "Hello", " ", "t", "hi", "s", "No", "Delivery",
      "pickup", "menu", "WHERE", "manager", "order", "happy hour", "Thanks", "OPEN" }

RECURSIVE Concatenations(_)
Concatenations(n) ==
    IF n = 0 THEN {""}
    ELSE LET shorter == Concatenations(n - 1)
         IN shorter \cup {u \o f : u \in shorter, f \in Fragments}

Utterances == Concatenations(MaxFragments)

Analyze ==
    /\ analysis = None
    /\ analysis' = analyze_intent(utterance)
    /\ UNCHANGED <<webhook_vars, utterance, reply, generate_vars, service_vars>>

Generate ==
    /\ analysis # None
    /\ reply = ""
    /\ reply' = generate_response(utterance, <<>>, analysis)
    /\ UNCHANGED <<webhook_vars, utterance, analysis, generate_vars, service_vars>>

\* Messages about delivery and collection: a keyword of order_request or of
\* delivery_inquiry, or none of them, between other words.
DeliveryWords ==
    { "delivery", "takeout", "take out", "pickup", "pick up", "carryout",
      "DELIVERY", "Carryout", "lunch" }

DeliveryMessages ==
    { before \o word \o after :
        before \in {"", "Hello ", "I want "},
        word \in DeliveryWords,
        after \in {"", " please", " or pickup"} }

-----------------------------------------------------------------------------
(* generate_response on its own: the same arguments, handed in again and again *)

\* Messages that hold keywords of _generate_mock_response from more than one of its tests.
MixedMessages ==
    { "Where is the food", "menu for delivery", "order at happy hour",
      "The ADDRESS on the Menu" }

GeneratorMessages == Fragments \cup MixedMessages \cup {""}

AnalysisTags ==
    { "greeting", "hours_inquiry", "location_inquiry", "menu_inquiry", "order_request",
      "reservation_request", "complaint", "delivery_inquiry", "closing", "contact_staff",
      "general_inquiry", "small_talk" }

\* intent_analysis as a caller of generate_response can hand it in: left out (None),
\* what analyze_intent returns for the message, or a dict written by the caller.
Analyses(user_message) ==
    {None, analyze_intent(user_message)}
        \cup { [ primary_intent       |-> detected[1],
                 all_detected_intents |-> detected,
                 escalation_needed    |-> any_escalation_intent(detected) ] :
                    detected \in {<<tag>> : tag \in AnalysisTags}
                                    \cup {<<tag, "contact_staff">> : tag \in AnalysisTags} }

Histories ==
    { <<>>,
      << [role |-> "user", content |-> "Hello"],
         [role |-> "assistant",
          content |-> "Hello! Thank you for calling Your Restaurant Name. How can I assist you today?"] >>,
      << [role |-> "user", content |-> "order"] >> }

\* What the commented-out chat completion could return.
Completions == {"We close at ten.", "Let me check that for you."}

\* Variant: the else branch asks the chat model when has_openai is set.
Invoke_with_model ==
    /\ Len(replies) < MaxCalls
    /\ LET scripted == generate_response(utterance, given_history, analysis)
       IN \E completion \in Completions :
              replies' = Append(replies,
                            IF has_openai
                               /\ scripted = _generate_mock_response(utterance, "general_inquiry")
                            THEN completion
                            ELSE scripted)
    /\ UNCHANGED <<webhook_vars, utterance, analysis, reply, has_openai, given_history, service_vars>>

\* One call of ai_agent.generate_response(utterance, given_history, analysis): it
\* reads its arguments and restaurant_info, and assigns to nothing but its locals.
Invoke ==
    /\ Len(replies) < MaxCalls
    /\ replies' = Append(replies, generate_response(utterance, given_history, analysis))
    /\ UNCHANGED <<webhook_vars, utterance, analysis, reply, has_openai, given_history, service_vars>>

-----------------------------------------------------------------------------
(* twilio_integration.py: TwilioHandler *)

\* TWILIO_PHONE_NUMBER is not set in the environment: os.getenv returns None.
twilio_phone == None

Say(message) == [verb |-> "Say", message |-> message]

Gather(action) ==
    [ verb |-> "Gather", input |-> "speech", action |-> action, method |-> "POST",
      timeout |-> 40, speech_timeout |-> 10, profanity_filter |-> TRUE ]

Dial(caller_id, number) == [verb |-> "Dial", caller_id |-> caller_id, number |-> number]

create_greeting_response(restaurant_name) ==
    << Say("Hello! Thank you for calling " \o restaurant_name \o ". How can I assist you today?"),
       Gather("/api/webhook/twilio/speech") >>

create_speech_response(ai_response, call_sid) ==
    << Say(ai_response),
       Gather("/api/webhook/twilio/speech?call_sid=" \o call_sid) >>

create_escalation_response(restaurant_phone) ==
    << Say("I'll connect you with our staff who can better assist you."),
       Say("Transferring you to our staff now."),
       Dial(twilio_phone, restaurant_phone) >>

create_unclear_response ==
    << Say("I'm sorry, I couldn't hear that clearly. Could you please repeat?"),
       Gather("/api/webhook/twilio/speech") >>

-----------------------------------------------------------------------------
(* app.py: configuration, CallSession, the session registry *)

\* The module-level facts of app.py, as read when no environment variable overrides them.
RESTAURANT_INFO ==
    [ name            |-> "Restaurant Name",
      address         |-> "Restaurant Address",
      hours           |-> "Open from 10 AM to 10 PM daily",
      menu_categories |-> split("Appetizers, Main Courses, Desserts, Beverages", ", "),
      delivery_policy |-> "We offer delivery within a 5-mile radius from 11 AM to 9 PM",
      phone           |-> "Phone Number" ]

\* An empty Python dict, and `d[key] = value`, `d.get(key, default)`.
empty_dict == [k \in {} |-> ""]

\* Variant: the assignment is lost.
dict_set_ignored(d, key, value) == d

dict_set(d, key, value) ==
    [k \in DOMAIN d \cup {key} |-> IF k = key THEN value ELSE d[k]]

dict_get(d, key, default) == IF key \in DOMAIN d THEN d[key] ELSE default

\* CallSession.__init__
CallSession(call_sid) ==
    [ call_sid             |-> call_sid,
      conversation_history |-> <<>>,
      caller_info          |-> empty_dict,
      escalation_needed    |-> FALSE,
      call_summary         |-> None ]

\* Variant: the turn replaces the history instead of being appended to it.
add_message_replacing(session, role, content) ==
    [session EXCEPT !.conversation_history = <<[role |-> role, content |-> content]>>]

\* Variant: the history keeps a window, the oldest turn leaves when another arrives.
add_message_dropping_oldest(session, role, content) ==
    [session EXCEPT !.conversation_history =
        (IF Len(@) >= 2 THEN Tail(@) ELSE @) \o <<[role |-> role, content |-> content]>>]

\* Variant: the turn is inserted at the front of the history.
add_message_prepending(session, role, content) ==
    [session EXCEPT !.conversation_history = <<[role |-> role, content |-> content]>> \o @]

\* CallSession.add_message
add_message(session, role, content) ==
    [session EXCEPT !.conversation_history = Append(@, [role |-> role, content |-> content])]

\* Variant: the session never reports that it needs escalation.
session_needs_escalation_never(session) == FALSE

\* CallSession.needs_escalation
session_needs_escalation(session) == session.escalation_needed

\* Variant: no `if call_sid not in sessions`, a new CallSession is stored on every call.
get_session_always_new(call_sid) ==
    [c \in DOMAIN sessions \cup {call_sid} |->
        IF c = call_sid THEN CallSession(call_sid) ELSE sessions[c]]

\* get_session: the registry after the call; the session returned is its entry for call_sid.
get_session(call_sid) ==
    IF call_sid \notin DOMAIN sessions
    THEN sessions @@ (call_sid :> CallSession(call_sid))
    ELSE sessions

\* Variant: the entry is left in the registry.
del_session_skipped(call_sid) == sessions

\* Variant: `sessions.clear()`, every entry is removed.
del_session_all(call_sid) == empty_dict

\* `del sessions[call_sid]`
del_session(call_sid) == [c \in DOMAIN sessions \ {call_sid} |-> sessions[c]]

-----------------------------------------------------------------------------
(* Form fields the webhooks receive *)

\* "" is what form_data.get('CallSid', '') yields when the field is missing.
CallSids == {"CA1", ""}

Phones == {"+15550100"}

\* A form field is a str, or an UploadFile when it arrives as a multipart file part.
Str(value) == [type |-> "str", value |-> value]
UploadFile == [type |-> "file", value |-> "speech.wav"]

SpokenTexts == {"What time do you open?", "I'd like to make a reservation for two"}

\* Str("") is what form_data.get('SpeechResult', '') yields when the field is missing.
SpeechResults == {Str(text) : text \in SpokenTexts \cup {""}} \cup {UploadFile}

\* "0.0" is what form_data.get('Confidence', '0.0') yields when the field is missing.
Confidences == {"0.0", "0.3", "0.5", "high"}

CallStatuses == {"initiated", "ringing", "in-progress", "completed", "busy", "failed", "no-answer"}

\* Python truthiness of a form field: a str is falsy when empty, an UploadFile never.
truthy(field) == field.type # "str" \/ field.value # ""

DIGITS == "0123456789"

is_digit(c) == \E i \in 1..Len(DIGITS) : SubSeq(DIGITS, i, i) = c

digit_value(c) == (CHOOSE i \in 1..Len(DIGITS) : SubSeq(DIGITS, i, i) = c) - 1

all_digits(s) == \A i \in 1..Len(s) : is_digit(SubSeq(s, i, i))

RECURSIVE int_value(_)
int_value(s) ==
    IF s = "" THEN 0
    ELSE int_value(SubSeq(s, 1, Len(s) - 1)) * 10 + digit_value(SubSeq(s, Len(s), Len(s)))

\* Python float(text) for plain decimal text: [ok |-> FALSE] stands for ValueError,
\* otherwise milli is the value in thousandths, rounded down.
float(text) ==
    LET parts == split(text, ".")
        whole == parts[1]
        frac == IF Len(parts) = 2 THEN parts[2] ELSE ""
        valid == /\ Len(parts) \in {1, 2}
                 /\ all_digits(whole) /\ all_digits(frac)
                 /\ Len(whole) + Len(frac) > 0
    IN IF valid
       THEN [ok |-> TRUE, milli |-> int_value(whole) * 1000 + int_value(SubSeq(frac \o "000", 1, 3))]
       ELSE [ok |-> FALSE, milli |-> 0]

\* float(confidence) for the Confidence fields of the model.
parse_confidence == [confidence \in Confidences |-> float(confidence)]

\* The threshold 0.5 of handle_twilio_speech_webhook, in thousandths.
CONFIDENCE_THRESHOLD_MILLI == 500

\* Variant: `float(confidence) <= 0.5`
below_threshold_or_equal(milli) == milli <= CONFIDENCE_THRESHOLD_MILLI

\* Variant: the comparison is reversed.
below_threshold_reversed(milli) == milli > CONFIDENCE_THRESHOLD_MILLI

\* `float(confidence) < 0.5`
below_threshold(milli) == milli < CONFIDENCE_THRESHOLD_MILLI

-----------------------------------------------------------------------------
(* app.py: get_ai_response *)

\* `ai_agent = RestaurantAIAgent()`: the agent's answers to the messages callers speak.
ai_agent ==
    [ analyze_intent    |-> [m \in SpokenTexts |-> analyze_intent(m)],
      generate_response |-> [m \in SpokenTexts |-> generate_response(m, <<>>, analyze_intent(m))] ]

APOLOGY ==
    "I apologize, but I'm experiencing technical difficulties. Let me connect you to our staff."

\* Variant: `session.escalation_needed = needs_escalation(...)`, the flag is assigned
\* the result for this message whether it is true or false.
get_ai_response_assigning_flag(user_message, session) ==
    IF user_message.type # "str"
    THEN [session |-> session, ai_response |-> APOLOGY, generator_call |-> None]
    ELSE LET intent_analysis == ai_agent.analyze_intent[user_message.value]
             ai_response == ai_agent.generate_response[user_message.value]
             with_user == add_message(session, "user", user_message.value)
             with_reply == add_message(with_user, "assistant", ai_response)
             escalate == needs_escalation(user_message.value,
                                          with_reply.conversation_history, intent_analysis)
         IN [ session |-> [with_reply EXCEPT !.escalation_needed = escalate],
              ai_response |-> ai_response,
              generator_call |-> [user_message |-> user_message.value,
                                  conversation_history |-> session.conversation_history] ]

\* Variant: the user turn is appended before generate_response is called.
get_ai_response_user_turn_first(user_message, session) ==
    IF user_message.type # "str"
    THEN [session |-> session, ai_response |-> APOLOGY, generator_call |-> None]
    ELSE LET intent_analysis == ai_agent.analyze_intent[user_message.value]
             with_user == add_message(session, "user", user_message.value)
             ai_response == ai_agent.generate_response[user_message.value]
             with_reply == add_message(with_user, "assistant", ai_response)
             escalate == needs_escalation(user_message.value,
                                          with_reply.conversation_history, intent_analysis)
         IN [ session |-> IF escalate
                          THEN [with_reply EXCEPT !.escalation_needed = TRUE]
                          ELSE with_reply,
              ai_response |-> ai_response,
              generator_call |-> [user_message |-> user_message.value,
                                  conversation_history |-> with_user.conversation_history] ]

\* The session as get_ai_response leaves it, the text it returns, and the arguments
\* with which it called generate_response (the history is session.conversation_history
\* as it is before the turns of this message are appended).  A message that is not a
\* str has no lower(): analyze_intent raises before anything is generated or appended.
get_ai_response(user_message, session) ==
    IF user_message.type # "str"
    THEN [session |-> session, ai_response |-> APOLOGY, generator_call |-> None]
    ELSE LET intent_analysis == ai_agent.analyze_intent[user_message.value]
             ai_response == ai_agent.generate_response[user_message.value]
             with_user == add_message(session, "user", user_message.value)
             with_reply == add_message(with_user, "assistant", ai_response)
             escalate == needs_escalation(user_message.value,
                                          with_reply.conversation_history, intent_analysis)
         IN [ session |-> IF escalate
                          THEN [with_reply EXCEPT !.escalation_needed = TRUE]
                          ELSE with_reply,
              ai_response |-> ai_response,
              generator_call |-> [user_message |-> user_message.value,
                                  conversation_history |-> session.conversation_history] ]

-----------------------------------------------------------------------------
(* app.py: the webhook handlers *)

Handlers == {"voice", "speech", "status"}

RECURSIVE sum_over(_, _)
sum_over(f, keys) ==
    IF keys = {} THEN 0
    ELSE LET k == CHOOSE x \in keys : TRUE IN f[k] + sum_over(f, keys \ {k})

in_flight == sum_over(tasks, Handlers)

\* The coroutine of `handler` that resumes with its form data runs to its return
\* without another await: the event loop runs nothing else in between.
resume(handler) ==
    /\ tasks[handler] > 0
    /\ tasks' = [tasks EXCEPT ![handler] = @ - 1]

TwiML(twiml) ==
    [status |-> 200, media_type |-> "text/xml", twiml |-> twiml, text |-> "", json |-> None]

PlainText(text) ==
    [status |-> 200, media_type |-> "text/plain", twiml |-> <<>>, text |-> text, json |-> None]

Json(status, json) ==
    [status |-> status, media_type |-> "application/json", twiml |-> <<>>, text |-> "", json |-> json]

\* What the server answers when a handler raises: 500 Internal Server Error.
InternalServerError ==
    [status |-> 500, media_type |-> "text/plain", twiml |-> <<>>,
     text |-> "Internal Server Error", json |-> None]

Logged(handler, form, summary) == [handler |-> handler, form |-> form, summary |-> summary]

\* A request arrives: its coroutine starts and suspends at `await request.form()`.
Request(handler) ==
    /\ in_flight < MaxTasks
    /\ tasks' = [tasks EXCEPT ![handler] = @ + 1]
    /\ UNCHANGED <<sessions, log, response, generator_call, under_test>>

voice_webhook(call_sid, from_number) ==
    LET registry == get_session(call_sid)
        session == [registry[call_sid] EXCEPT
                        !.caller_info = dict_set(@, "phone", from_number)]
    IN /\ sessions' = [registry EXCEPT ![call_sid] = session]
       /\ response' = TwiML(create_greeting_response(RESTAURANT_INFO.name))
       /\ log' = Logged("voice", [CallSid |-> call_sid, From |-> from_number], None)
       /\ generator_call' = None

handle_twilio_voice_webhook ==
    /\ resume("voice")
    /\ \E call_sid \in CallSids, from_number \in Phones :
           voice_webhook(call_sid, from_number)
    /\ UNCHANGED under_test

\* Variant: the summary counts the turns held before this speech result was answered.
escalation_summary_before_answer(call_sid, session) ==
    [ call_sid            |-> call_sid,
      caller_phone        |-> dict_get(session.caller_info, "phone", "Unknown"),
      final_intent        |-> "Escalated to human",
      conversation_length |-> Len(session.conversation_history) - 2,
      escalation_reason   |-> "Order/Reservation/Complaint detected" ]

\* The call summary handle_twilio_speech_webhook stores when the call is escalated.
escalation_summary(call_sid, session) ==
    [ call_sid            |-> call_sid,
      caller_phone        |-> dict_get(session.caller_info, "phone", "Unknown"),
      final_intent        |-> "Escalated to human",
      conversation_length |-> Len(session.conversation_history),
      escalation_reason   |-> "Order/Reservation/Complaint detected" ]

speech_webhook(call_sid, speech_result, confidence) ==
    LET registry == get_session(call_sid)
        session == registry[call_sid]
        answered == get_ai_response(speech_result, session)
    IN /\ log' = Logged("speech", [CallSid |-> call_sid, SpeechResult |-> speech_result,
                                   Confidence |-> confidence], None)
       /\ IF ~truthy(speech_result)
          THEN /\ sessions' = registry
               /\ generator_call' = None
               /\ response' = TwiML(create_unclear_response)
          ELSE IF ~parse_confidence[confidence].ok
          THEN /\ sessions' = registry
               /\ generator_call' = None
               /\ response' = InternalServerError
          ELSE IF below_threshold(parse_confidence[confidence].milli)
          THEN /\ sessions' = registry
               /\ generator_call' = None
               /\ response' = TwiML(create_unclear_response)
          ELSE IF session_needs_escalation(answered.session)
          THEN /\ sessions' = [registry EXCEPT ![call_sid] =
                                  [answered.session EXCEPT !.call_summary =
                                      escalation_summary(call_sid, answered.session)]]
               /\ generator_call' = answered.generator_call
               /\ response' = TwiML(create_escalation_response(RESTAURANT_INFO.phone))
          ELSE /\ sessions' = [registry EXCEPT ![call_sid] = answered.session]
               /\ generator_call' = answered.generator_call
               /\ response' = TwiML(create_speech_response(answered.ai_response, call_sid))

RECURSIVE turns_held(_, _)
turns_held(registry, call_sids) ==
    IF call_sids = {} THEN 0
    ELSE LET c == CHOOSE x \in call_sids : TRUE
         IN Len(registry[c].conversation_history) + turns_held(registry, call_sids \ {c})

\* The model lets the sessions of the registry answer MaxTurns speech results and no more.
within_bounds(call_sid, speech_result, confidence) ==
    \/ ~truthy(speech_result)
    \/ speech_result.type # "str"
    \/ ~parse_confidence[confidence].ok
    \/ below_threshold(parse_confidence[confidence].milli)
    \/ turns_held(sessions, DOMAIN sessions) < 2 * MaxTurns

handle_twilio_speech_webhook ==
    /\ resume("speech")
    /\ \E call_sid \in CallSids, speech_result \in SpeechResults, confidence \in Confidences :
           /\ within_bounds(call_sid, speech_result, confidence)
           /\ speech_webhook(call_sid, speech_result, confidence)
    /\ UNCHANGED under_test

\* Variant: in-progress is taken for the end of the call.
TERMINAL_STATUSES_with_in_progress == {"completed", "busy", "failed", "no-answer", "in-progress"}

TERMINAL_STATUSES == {"completed", "busy", "failed", "no-answer"}

\* Variant: the summary is built from the session get_session returns after the removal.
final_summary_after_removal(call_sid, call_status, from_number, session) ==
    [ call_sid            |-> call_sid,
      caller_phone        |-> from_number,
      call_status         |-> call_status,
      conversation_length |-> Len(CallSession(call_sid).conversation_history),
      escalated           |-> session_needs_escalation(CallSession(call_sid)),
      summary             |-> CallSession(call_sid).call_summary ]

\* The summary handle_twilio_status_webhook logs when the call ends.
final_summary(call_sid, call_status, from_number, session) ==
    [ call_sid            |-> call_sid,
      caller_phone        |-> from_number,
      call_status         |-> call_status,
      conversation_length |-> Len(session.conversation_history),
      escalated           |-> session_needs_escalation(session),
      summary             |-> session.call_summary ]

status_webhook(call_sid, call_status, from_number) ==
    LET form == [CallSid |-> call_sid, CallStatus |-> call_status, From |-> from_number]
    IN /\ response' = PlainText("OK")
       /\ generator_call' = None
       /\ IF call_status \in TERMINAL_STATUSES /\ call_sid \in DOMAIN sessions
          THEN LET session == sessions[call_sid]
                   summary == final_summary(call_sid, call_status, from_number, session)
               IN /\ log' = Logged("status", form, summary)
                  /\ sessions' = del_session(call_sid)
          ELSE /\ log' = Logged("status", form, None)
               /\ sessions' = sessions

handle_twilio_status_webhook ==
    /\ resume("status")
    /\ \E call_sid \in CallSids, call_status \in CallStatuses, from_number \in Phones :
           status_webhook(call_sid, call_status, from_number)
    /\ UNCHANGED under_test

\* Variant: the session is looked up with get_session, as the webhooks do.
get_call_session_through_get_session(call_sid) ==
    /\ sessions' = get_session(call_sid)
    /\ response' = Json(200, get_session(call_sid)[call_sid])
    /\ log' = Logged("session", [call_sid |-> call_sid], None)
    /\ generator_call' = None
    /\ UNCHANGED <<tasks, under_test>>

\* GET /api/session/{call_sid}: a plain function, it has no await point.
get_call_session(call_sid) ==
    /\ response' = IF call_sid \in DOMAIN sessions
                   THEN Json(200, sessions[call_sid])
                   ELSE Json(404, [detail |-> "Session not found"])
    /\ log' = Logged("session", [call_sid |-> call_sid], None)
    /\ generator_call' = None
    /\ UNCHANGED <<sessions, tasks, under_test>>

-----------------------------------------------------------------------------
(* app.py: speech_to_text and text_to_speech *)

\* How a block of statements ends: with a return value, or with an exception.
Return(value) == [raised |-> FALSE, value |-> value]
Raise(exception) == [raised |-> TRUE, value |-> exception]

\* `except Exception as e: ...; return value`
except_Exception(outcome, value) == IF outcome.raised THEN Return(value) ELSE outcome

\* `openai_client`: None when OPENAI_API_KEY is not set.
OpenAIClients == {"None", "OpenAI"}

\* What requests.get and requests.post do: raise, or answer with a status code.
HttpOutcomes == {"raises", "200", "404", "500"}

\* What audio.transcriptions.create does: raise, or return a transcript with this text.
Transcriptions == {[raises |-> TRUE, text |-> ""]}
                    \cup {[raises |-> FALSE, text |-> text] : text \in SpokenTexts \cup {""}}

\* What speech_to_text finds around it.
TranscriptionServices ==
    [ openai_client : OpenAIClients, get : HttpOutcomes,
      transcription : Transcriptions, unlink_raises : BOOLEAN ]

\* The try block of speech_to_text.  An exception of transcriptions.create leaves
\* through the finally clause; an exception of os.unlink in the finally clause
\* replaces the return of the transcript.
speech_to_text_try(audio_url, services) ==
    IF services.openai_client = "None" THEN Return("")
    ELSE IF services.get = "raises" THEN Raise("RequestException")
    ELSE IF services.get # "200" THEN Return("")
    ELSE IF services.transcription.raises THEN Raise("APIError")
    ELSE IF services.unlink_raises THEN Raise("OSError")
    ELSE Return(services.transcription.text)

\* Variant: without the `except Exception` clause.
speech_to_text_without_except(audio_url, services) ==
    speech_to_text_try(audio_url, services)

speech_to_text(audio_url, services) ==
    except_Exception(speech_to_text_try(audio_url, services), "")

\* The names text_to_speech binds.  `import os` (line 145) is one of its statements,
\* so os is a local name in all of the function, unbound until that line has run.
text_to_speech_locals ==
    {"text", "url", "headers", "data", "response", "tempfile", "os", "temp_audio", "e"}

AudioHandle(name) == [url |-> "http://localhost:8000/audio/" \o name]

\* The try block of text_to_speech.  Its first statement reads os.getenv.
text_to_speech_try(text, post) ==
    IF "os" \in text_to_speech_locals THEN Raise("UnboundLocalError")
    ELSE IF post = "raises" THEN Raise("RequestException")
    ELSE IF post = "200" THEN Return(AudioHandle("tmp.mp3"))
    ELSE Return(None)

\* Variant: without the `except Exception` clause.
text_to_speech_without_except(text, post) ==
    text_to_speech_try(text, post)

text_to_speech(text, post) ==
    except_Exception(text_to_speech_try(text, post), None)

AudioUrls == {"https://api.twilio.com/recording/RE1"}

Transcribe ==
    /\ \E audio_url \in AudioUrls, services \in TranscriptionServices :
           stt' = [ audio_url |-> audio_url, services |-> services,
                    result |-> speech_to_text(audio_url, services) ]
    /\ UNCHANGED <<webhook_vars, utterance, analysis, reply, generate_vars, tts>>

Synthesize ==
    /\ \E text \in SpokenTexts, post \in HttpOutcomes :
           tts' = [text |-> text, post |-> post, result |-> text_to_speech(text, post)]
    /\ UNCHANGED <<webhook_vars, utterance, analysis, reply, generate_vars, stt>>

-----------------------------------------------------------------------------
(* Specifications *)

Init ==
    /\ sessions = empty_dict
    /\ tasks = [handler \in Handlers |-> 0]
    /\ log = Logged("none", None, None)
    /\ response = PlainText("")
    /\ utterance = ""
    /\ analysis = None
    /\ reply = ""
    /\ generator_call = None
    /\ has_openai = FALSE
    /\ given_history = <<>>
    /\ replies = <<>>
    /\ stt = None
    /\ tts = None

Next ==
    \/ \E handler \in Handlers : Request(handler)
    \/ handle_twilio_voice_webhook
    \/ handle_twilio_speech_webhook
    \/ handle_twilio_status_webhook
    \/ \E call_sid \in CallSids : get_call_session(call_sid)

\* The webhooks and the session registry.
Spec == Init /\ [][Next]_vars

InitAgent ==
    /\ sessions = empty_dict
    /\ tasks = [handler \in Handlers |-> 0]
    /\ log = Logged("none", None, None)
    /\ response = PlainText("")
    /\ utterance \in Utterances
    /\ analysis = None
    /\ reply = ""
    /\ generator_call = None
    /\ has_openai = FALSE
    /\ given_history = <<>>
    /\ replies = <<>>
    /\ stt = None
    /\ tts = None

NextAgent == Analyze \/ Generate

\* The agent alone, on every utterance of the model.
SpecAgent == InitAgent /\ [][NextAgent]_vars

\* The session of a call holds the history that is handed to generate_response, as
\* get_ai_response hands in session.conversation_history.
InitGenerate ==
    /\ utterance \in GeneratorMessages
    /\ analysis \in Analyses(utterance)
    /\ given_history \in Histories
    /\ has_openai \in BOOLEAN
    /\ replies = <<>>
    /\ sessions = [call_sid \in {"CA1"} |->
                      [CallSession(call_sid) EXCEPT !.conversation_history = given_history]]
    /\ tasks = [handler \in Handlers |-> 0]
    /\ log = Logged("none", None, None)
    /\ response = PlainText("")
    /\ reply = ""
    /\ generator_call = None
    /\ stt = None
    /\ tts = None

NextGenerate == Invoke

\* generate_response alone, called MaxCalls times on the same arguments.
SpecGenerate == InitGenerate /\ [][NextGenerate]_vars

InitDelivery ==
    /\ sessions = empty_dict
    /\ tasks = [handler \in Handlers |-> 0]
    /\ log = Logged("none", None, None)
    /\ response = PlainText("")
    /\ utterance \in DeliveryMessages
    /\ analysis = None
    /\ reply = ""
    /\ generator_call = None
    /\ has_openai = FALSE
    /\ given_history = <<>>
    /\ replies = <<>>
    /\ stt = None
    /\ tts = None

\* The agent alone, on the messages about delivery and collection.
SpecDelivery == InitDelivery /\ [][NextAgent]_vars

NextSpeech == Transcribe \/ Synthesize

\* The two speech services alone, each called in every environment of the model.
SpecSpeech == Init /\ [][NextSpeech]_vars

-----------------------------------------------------------------------------
(* Vocabulary of the properties *)

\* The step is the body of one webhook handler, run from its await to its return;
\* log' then holds the form that handler read.
VoiceStep == tasks'["voice"] = tasks["voice"] - 1
SpeechStep == tasks'["speech"] = tasks["speech"] - 1
StatusStep == tasks'["status"] = tasks["status"] - 1

\* The Confidence fields of the model on either side of 0.5.
AtLeastHalf == {"0.5"}
BelowHalf == {"0.0", "0.3"}

\* A speech result with usable text: non-empty text, confidence >= 0.5.
Usable(form) ==
    /\ form.SpeechResult.type = "str"
    /\ form.SpeechResult.value # ""
    /\ form.Confidence \in AtLeastHalf

\* A clarifying speech result: empty text, or confidence < 0.5.
Clarifying(form) ==
    \/ form.SpeechResult = [type |-> "str", value |-> ""]
    \/ form.Confidence \in BelowHalf

EscalationSet == {"order_request", "reservation_request", "complaint", "contact_staff"}

TerminalStatuses == {"completed", "busy", "failed", "no-answer"}

\* What the classifier and the generator make of a spoken text.
classified(text) == ai_agent.analyze_intent[text]
reply_to(text) == ai_agent.generate_response[text]

history_of(registry, call_sid) ==
    IF call_sid \in DOMAIN registry THEN registry[call_sid].conversation_history ELSE <<>>

escalated_in(registry, call_sid) ==
    call_sid \in DOMAIN registry /\ registry[call_sid].escalation_needed

summary_in(registry, call_sid) ==
    IF call_sid \in DOMAIN registry THEN registry[call_sid].call_summary ELSE None

\* The user turn and the assistant turn of one answered speech result.
exchange(text) ==
    << [role |-> "user", content |-> text], [role |-> "assistant", content |-> reply_to(text)] >>

has_verb(r, verb) == \E i \in 1..Len(r.twiml) : r.twiml[i].verb = verb

says(r, text) ==
    \E i \in 1..Len(r.twiml) : r.twiml[i].verb = "Say" /\ r.twiml[i].message = text

\* The effect a response has on the call.
effect(r) ==
    IF r.media_type # "text/xml" THEN "none"
    ELSE IF has_verb(r, "Dial") /\ ~has_verb(r, "Gather") THEN "escalate-to-number"
    ELSE IF ~(has_verb(r, "Say") /\ has_verb(r, "Gather")) THEN "other"
    ELSE IF says(r, "I'm sorry, I couldn't hear that clearly. Could you please repeat?")
    THEN "clarify-and-listen"
    ELSE IF r.twiml[Len(r.twiml)].action = "/api/webhook/twilio/speech"
    THEN "greeting"
    ELSE "prompt-and-listen"

-----------------------------------------------------------------------------
(* Properties of the classifier *)

\* C1: for every utterance, analyze_intent returns escalation_needed = true if and
\* only if all_detected_intents holds at least one of order_request,
\* reservation_request, complaint, contact_staff.
C1_EscalationIffEscalationIntentDetected ==
    analysis # None =>
        (analysis.escalation_needed
            <=> \E i \in 1..Len(analysis.all_detected_intents) :
                    analysis.all_detected_intents[i] \in EscalationSet)

\* An utterance escalates on an intent that is not its primary intent.
C1_Witness ==
    /\ analysis # None
    /\ analysis.escalation_needed
    /\ analysis.primary_intent \notin EscalationSet

-----------------------------------------------------------------------------
(* Properties of the speech webhook *)

\* C2: a speech result with usable text that is not answered by the transfer makes the
\* session's conversation_history longer by exactly 2, a user turn holding the
\* utterance and then an assistant turn holding the reply that is spoken; a clarifying
\* speech result makes it longer by 0.
C2_HistoryGrowsByOneExchange ==
    [][SpeechStep =>
        LET form == log'.form
            before == history_of(sessions, form.CallSid)
            after == history_of(sessions', form.CallSid)
        IN /\ (Usable(form) /\ effect(response') # "escalate-to-number") =>
                  /\ Len(after) = Len(before) + 2
                  /\ SubSeq(after, 1, Len(before)) = before
                  /\ after[Len(after) - 1] = [role |-> "user", content |-> form.SpeechResult.value]
                  /\ after[Len(after)].role = "assistant"
                  /\ after[Len(after)].content = reply_to(form.SpeechResult.value)
                  /\ says(response', after[Len(after)].content)
           /\ Clarifying(form) => Len(after) = Len(before)
    ]_vars

\* A second speech result of a call has been answered with a reply.
C2_Witness ==
    /\ log.handler = "speech"
    /\ Usable(log.form)
    /\ effect(response) = "prompt-and-listen"
    /\ Len(history_of(sessions, log.form.CallSid)) = 4

\* C3: while a session stays in the registry, no event sets its escalation_needed
\* back to false once it is true; the session leaves the registry only when a
\* terminal call status for its call is handled.
C3_EscalationNeverReset ==
    [][\A c \in DOMAIN sessions :
          sessions[c].escalation_needed =>
              \/ c \in DOMAIN sessions' /\ sessions'[c].escalation_needed
              \/ /\ c \notin DOMAIN sessions'
                 /\ StatusStep
                 /\ log'.form.CallSid = c
                 /\ log'.form.CallStatus \in TerminalStatuses
    ]_vars

\* An escalated session has since answered a speech result that does not escalate.
C3_Witness ==
    \E c \in DOMAIN sessions :
        /\ sessions[c].escalation_needed
        /\ Len(sessions[c].conversation_history) = 4
        /\ classified(sessions[c].conversation_history[1].content).escalation_needed
        /\ ~classified(sessions[c].conversation_history[3].content).escalation_needed

\* C4: a speech result with empty text or with confidence below 0.5 is answered with
\* clarify-and-listen and leaves the session's conversation_history,
\* escalation_needed and call_summary as they were; when the call had no session,
\* the one the handler creates holds no turn, no escalation and no summary.
C4_ClarifyingLeavesSessionAlone ==
    [][(SpeechStep /\ Clarifying(log'.form)) =>
        LET c == log'.form.CallSid
        IN /\ effect(response') = "clarify-and-listen"
           /\ c \in DOMAIN sessions'
           /\ sessions'[c].conversation_history = history_of(sessions, c)
           /\ sessions'[c].escalation_needed = escalated_in(sessions, c)
           /\ sessions'[c].call_summary = summary_in(sessions, c)
    ]_vars

\* A session that holds turns has been sent a text of low confidence.
C4_Witness ==
    /\ log.handler = "speech"
    /\ log.form.SpeechResult.type = "str"
    /\ log.form.SpeechResult.value # ""
    /\ log.form.Confidence \in BelowHalf
    /\ effect(response) = "clarify-and-listen"
    /\ Len(history_of(sessions, log.form.CallSid)) = 2

\* C5: a usable speech result whose utterance the classifier marks escalation_needed
\* sets the session's escalation_needed, is answered with the transfer to the
\* restaurant's number and nothing to listen for, and stores a call_summary whose
\* final_intent is "Escalated to human" and whose conversation_length is the length
\* of the history once the user turn and the assistant turn of this event are in it.
C5_EscalatingUtterance ==
    [][(SpeechStep /\ Usable(log'.form)
            /\ classified(log'.form.SpeechResult.value).escalation_needed) =>
        LET c == log'.form.CallSid
            before == history_of(sessions, c)
        IN /\ c \in DOMAIN sessions'
           /\ sessions'[c].escalation_needed
           /\ effect(response') = "escalate-to-number"
           /\ \E i \in 1..Len(response'.twiml) :
                  /\ response'.twiml[i].verb = "Dial"
                  /\ response'.twiml[i].number = RESTAURANT_INFO.phone
           /\ sessions'[c].conversation_history = before \o exchange(log'.form.SpeechResult.value)
           /\ sessions'[c].call_summary # None
           /\ sessions'[c].call_summary.final_intent = "Escalated to human"
           /\ sessions'[c].call_summary.conversation_length = Len(before) + 2
    ]_vars

\* The second speech result of a call escalates: the summary counts four turns.
C5_Witness ==
    /\ log.handler = "speech"
    /\ Usable(log.form)
    /\ classified(log.form.SpeechResult.value).escalation_needed
    /\ effect(response) = "escalate-to-number"
    /\ summary_in(sessions, log.form.CallSid) # None
    /\ summary_in(sessions, log.form.CallSid).conversation_length = 4

\* C6, as the specification states it: a usable speech result is answered with the
\* transfer exactly when the classifier marks its utterance escalation_needed, and
\* otherwise with prompt-and-listen carrying the generated reply.
C6_EscalatesExactlyWhenClassifierSays ==
    [][(SpeechStep /\ Usable(log'.form)) =>
        LET text == log'.form.SpeechResult.value
        IN IF classified(text).escalation_needed
           THEN effect(response') = "escalate-to-number"
           ELSE /\ effect(response') = "prompt-and-listen"
                /\ says(response', reply_to(text))
    ]_vars

\* C6, amended: a usable speech result is answered with the transfer exactly when
\* the classifier marks its utterance escalation_needed or the session's
\* escalation_needed was true before the event, and otherwise with
\* prompt-and-listen carrying the generated reply.
C6_EscalatesWhenClassifierSaysOrEscalatedBefore ==
    [][(SpeechStep /\ Usable(log'.form)) =>
        LET text == log'.form.SpeechResult.value
        IN IF \/ classified(text).escalation_needed
              \/ escalated_in(sessions, log'.form.CallSid)
           THEN effect(response') = "escalate-to-number"
           ELSE /\ effect(response') = "prompt-and-listen"
                /\ says(response', reply_to(text))
    ]_vars

\* A first utterance that does not escalate has been answered with its reply.
C6_Witness ==
    /\ log.handler = "speech"
    /\ Usable(log.form)
    /\ ~classified(log.form.SpeechResult.value).escalation_needed
    /\ effect(response) = "prompt-and-listen"
    /\ says(response, reply_to(log.form.SpeechResult.value))
    /\ Len(history_of(sessions, log.form.CallSid)) = 2

\* C7: once a session's escalation_needed is true, every usable speech result for its
\* call is answered with the transfer, never with prompt-and-listen, for as long as
\* the session is in the registry.
C7_NoAutomatedReplyAfterEscalation ==
    [][(SpeechStep /\ Usable(log'.form) /\ escalated_in(sessions, log'.form.CallSid)) =>
        /\ effect(response') = "escalate-to-number"
        /\ ~has_verb(response', "Gather")
        /\ escalated_in(sessions', log'.form.CallSid)
    ]_vars

\* An escalated call has said something that does not escalate and was transferred.
C7_Witness ==
    /\ log.handler = "speech"
    /\ Usable(log.form)
    /\ ~classified(log.form.SpeechResult.value).escalation_needed
    /\ effect(response) = "escalate-to-number"
    /\ escalated_in(sessions, log.form.CallSid)

-----------------------------------------------------------------------------
(* Properties of the session registry *)

\* A session as CallSession.__init__ leaves it.
IsNew(session, call_sid) ==
    /\ session.call_sid = call_sid
    /\ session.conversation_history = <<>>
    /\ DOMAIN session.caller_info = {}
    /\ session.escalation_needed = FALSE
    /\ session.call_summary = None

\* C8: a call status of completed, busy, failed or no-answer for a call that has a
\* session removes the session from the registry, and get_session for that call then
\* returns a new session: no turn, no caller_info, escalation_needed false, no
\* call_summary.  The event that later brings the call back into the registry finds
\* such a session: what the registry then holds for the call is that event's alone.
C8_TerminalStatusRemovesSession ==
    [][\A c \in CallSids :
        /\ (StatusStep /\ log'.form.CallSid = c /\ log'.form.CallStatus \in TerminalStatuses
                /\ c \in DOMAIN sessions) =>
               /\ c \notin DOMAIN sessions'
               /\ IsNew((get_session(c)')[c], c)
        /\ (c \notin DOMAIN sessions /\ c \in DOMAIN sessions') =>
               LET session == sessions'[c]
               IN /\ session.call_sid = c
                  /\ \/ VoiceStep /\ session.caller_info = [k \in {"phone"} |-> log'.form.From]
                     \/ SpeechStep /\ DOMAIN session.caller_info = {}
                  /\ \/ session.conversation_history = <<>>
                     \/ /\ SpeechStep /\ Usable(log'.form)
                        /\ session.conversation_history = exchange(log'.form.SpeechResult.value)
                  /\ session.escalation_needed =>
                         classified(session.conversation_history[1].content).escalation_needed
                  /\ (session.call_summary # None) <=> session.escalation_needed
    ]_vars

\* A session that held an answered speech result has been summarised and removed.
C8_Witness ==
    /\ log.handler = "status"
    /\ log.form.CallStatus \in TerminalStatuses
    /\ log.summary # None
    /\ log.summary.conversation_length = 2
    /\ log.form.CallSid \notin DOMAIN sessions

\* C9, as the specification states it: once a terminal call status for a call has
\* been handled, the registry never again holds a session for that call.  Here for
\* the event served next: log holds the terminal call status until another request
\* is served, and the request served then must leave the call out of the registry.
C9_NoSessionAfterTermination ==
    [][\A c \in CallSids :
        (/\ log.handler = "status"
         /\ log.form.CallSid = c
         /\ log.form.CallStatus \in TerminalStatuses) => c \notin DOMAIN sessions'
    ]_vars

\* C10: whatever other webhook coroutines are suspended at their await, a speech
\* result with usable text appends to the history of its call its user turn
\* immediately followed by its own assistant turn, after all the turns the session
\* held, and the session's escalation_needed becomes true if it was true or the
\* classifier marks this utterance; no other session changes.
C10_SpeechResultsDoNotInterleave ==
    [][(SpeechStep /\ Usable(log'.form)) =>
        LET c == log'.form.CallSid
            text == log'.form.SpeechResult.value
        IN /\ c \in DOMAIN sessions'
           /\ sessions'[c].conversation_history = history_of(sessions, c) \o exchange(text)
           /\ sessions'[c].escalation_needed =
                  (escalated_in(sessions, c) \/ classified(text).escalation_needed)
           /\ \A other \in DOMAIN sessions \ {c} :
                  other \in DOMAIN sessions' /\ sessions'[other] = sessions[other]
    ]_vars

\* Two speech results of one call have been answered, the second while another
\* speech coroutine is suspended at its await; the turns of each are adjacent and
\* the escalation of the first is kept.
C10_Witness ==
    /\ log.handler = "speech"
    /\ Usable(log.form)
    /\ tasks["speech"] >= 1
    /\ LET history == history_of(sessions, log.form.CallSid)
       IN /\ Len(history) = 4
          /\ history[3].content = log.form.SpeechResult.value
          /\ history[1].content # history[3].content
          /\ classified(history[1].content).escalation_needed
    /\ escalated_in(sessions, log.form.CallSid)

-----------------------------------------------------------------------------
(* Properties of error handling *)

\* C11, as the specification states it: every call-start, speech-result and
\* call-status event, malformed or not, ends with a response effect; no handler
\* fails with an unhandled error (which the server answers with status 500).
C11_EveryEventIsAnswered ==
    /\ log.handler \in {"voice", "speech"} => effect(response) # "none"
    /\ log.handler = "status" => response.status = 200

\* C12, as the specification states it: when computing the reply of a speech result
\* that passed the clarifying test fails (here analyze_intent raises on a payload
\* that is not a str), the session is marked escalated and the event is answered
\* with the transfer.
C12_FailedReplyEscalates ==
    [][(SpeechStep /\ log'.form.SpeechResult.type # "str"
            /\ log'.form.Confidence \in AtLeastHalf) =>
        /\ escalated_in(sessions', log'.form.CallSid)
        /\ effect(response') = "escalate-to-number"
    ]_vars

-----------------------------------------------------------------------------
(* Properties of the registry under events of several calls *)

\* What the registry holds for a call.
entry(registry, call_sid) ==
    IF call_sid \in DOMAIN registry THEN registry[call_sid] ELSE None

\* C13: in every step, whatever is in flight, what the registry holds for a call
\* (its entry and the session's conversation_history, caller_info,
\* escalation_needed and call_summary) changes only when the event handled in that
\* step is an event of that call: events of call A leave call B as it was.
C13_CallsAreIndependent ==
    [][\A b \in CallSids :
        entry(sessions', b) # entry(sessions, b) =>
            /\ VoiceStep \/ SpeechStep \/ StatusStep
            /\ log'.form.CallSid = b
    ]_vars

\* A speech result of one call has been answered while another call holds turns.
C13_Witness ==
    /\ log.handler = "speech"
    /\ Usable(log.form)
    /\ Len(history_of(sessions, log.form.CallSid)) = 2
    /\ \E b \in DOMAIN sessions \ {log.form.CallSid} :
           /\ Len(sessions[b].conversation_history) = 2
           /\ DOMAIN sessions[b].caller_info = {"phone"}

\* C14: a terminal call status for a call without a session, and a call status of
\* initiated, ringing or in-progress for any call, leave the registry and every
\* session as they were, and the handler still answers (200, "OK").
C14_StatusWithoutEffect ==
    [][(StatusStep /\ (\/ log'.form.CallStatus \notin TerminalStatuses
                       \/ log'.form.CallSid \notin DOMAIN sessions)) =>
        /\ sessions' = sessions
        /\ response'.status = 200
        /\ response'.text = "OK"
    ]_vars

\* A terminal call status has been handled for a call that had no session, while
\* the registry holds the session of another call.
C14_Witness ==
    /\ log.handler = "status"
    /\ log.form.CallStatus \in TerminalStatuses
    /\ log.summary = None
    /\ response.text = "OK"
    /\ \E b \in DOMAIN sessions : Len(sessions[b].conversation_history) = 2

\* C15: get_session for a call that has a session returns the registry's session
\* with all its fields as they are and adds no entry; for any call it leaves every
\* other entry alone, and every session is stored under its own call_sid, so the
\* registry holds one session per call.
C15_GetSessionIsIdempotent ==
    /\ \A c \in DOMAIN sessions : sessions[c].call_sid = c
    /\ \A c \in CallSids :
           LET registry == get_session(c)
           IN /\ DOMAIN registry = DOMAIN sessions \cup {c}
              /\ \A other \in DOMAIN sessions : registry[other] = sessions[other]
              /\ c \in DOMAIN sessions => registry = sessions

\* The registry holds a session with turns, a caller phone and a call summary.
C15_Witness ==
    \E c \in DOMAIN sessions :
        /\ Len(sessions[c].conversation_history) = 2
        /\ DOMAIN sessions[c].caller_info = {"phone"}
        /\ sessions[c].escalation_needed
        /\ sessions[c].call_summary # None

-----------------------------------------------------------------------------
(* Properties of the voice and status webhooks *)

\* C16: a call-start leaves a session for its call in the registry, with the
\* event's From as the phone of caller_info, and is answered with the greeting; the
\* session's conversation_history, escalation_needed and call_summary are those it
\* had before (those of a new session when the call had none).
C16_CallStart ==
    [][VoiceStep =>
        LET c == log'.form.CallSid
        IN /\ c \in DOMAIN sessions'
           /\ "phone" \in DOMAIN sessions'[c].caller_info
           /\ sessions'[c].caller_info["phone"] = log'.form.From
           /\ effect(response') = "greeting"
           /\ says(response', "Hello! Thank you for calling " \o RESTAURANT_INFO.name
                                  \o ". How can I assist you today?")
           /\ sessions'[c].conversation_history = history_of(sessions, c)
           /\ sessions'[c].escalation_needed = escalated_in(sessions, c)
           /\ sessions'[c].call_summary = summary_in(sessions, c)
    ]_vars

\* A call-start has been handled for a call that had already escalated.
C16_Witness ==
    /\ log.handler = "voice"
    /\ effect(response) = "greeting"
    /\ Len(history_of(sessions, log.form.CallSid)) = 2
    /\ escalated_in(sessions, log.form.CallSid)
    /\ summary_in(sessions, log.form.CallSid) # None
    /\ sessions[log.form.CallSid].caller_info["phone"] = log.form.From

\* C17: the summary logged on a terminal call status for a call that has a session
\* is built from the session as it is when the event is handled, before it is
\* removed: conversation_length is the length of its history, escalated its
\* escalation_needed, summary its call_summary (None when the call never escalated).
C17_FinalSummary ==
    [][(StatusStep /\ log'.form.CallStatus \in TerminalStatuses
            /\ log'.form.CallSid \in DOMAIN sessions) =>
        LET session == sessions[log'.form.CallSid]
        IN /\ log'.summary # None
           /\ log'.summary.call_sid = log'.form.CallSid
           /\ log'.summary.caller_phone = log'.form.From
           /\ log'.summary.call_status = log'.form.CallStatus
           /\ log'.summary.conversation_length = Len(session.conversation_history)
           /\ log'.summary.escalated = session.escalation_needed
           /\ log'.summary.summary = session.call_summary
           /\ (log'.summary.summary = None) <=> ~session.escalation_needed
           /\ log'.form.CallSid \notin DOMAIN sessions'
    ]_vars

\* An escalated call of four turns has ended and been summarised.
C17_Witness ==
    /\ log.handler = "status"
    /\ log.summary # None
    /\ log.summary.conversation_length = 4
    /\ log.summary.escalated
    /\ log.summary.summary # None
    /\ log.summary.summary.final_intent = "Escalated to human"

-----------------------------------------------------------------------------
(* Properties of the history *)

\* C18: while a session stays in the registry its conversation_history only grows
\* at the end: in every step the history before is a prefix of the history after.
C18_HistoryIsAppendOnly ==
    [][\A c \in DOMAIN sessions \cap DOMAIN sessions' :
        LET before == sessions[c].conversation_history
            after == sessions'[c].conversation_history
        IN /\ Len(after) >= Len(before)
           /\ SubSeq(after, 1, Len(before)) = before
    ]_vars

\* A call that never escalated holds the turns of two answered speech results.
C18_Witness ==
    \E c \in DOMAIN sessions :
        /\ Len(sessions[c].conversation_history) = 4
        /\ ~sessions[c].escalation_needed
        /\ sessions[c].conversation_history[1].role = "user"
        /\ sessions[c].conversation_history[4].role = "assistant"

-----------------------------------------------------------------------------
(* Properties of the keyword table *)

HoursKeywords == <<"open", "close", "hours", "time", "when", "what time", "what are your hours">>

GreetingKeywords == <<"hello", "hi", "hey", "good morning", "good afternoon", "good evening">>

IntentOrder ==
    << "greeting", "hours_inquiry", "location_inquiry", "menu_inquiry", "order_request",
       "reservation_request", "complaint", "delivery_inquiry", "closing", "contact_staff" >>

any_keyword_in(message_lower, keywords) ==
    \E k \in 1..Len(keywords) : contains(message_lower, keywords[k])

position(intent) == CHOOSE i \in 1..Len(IntentOrder) : IntentOrder[i] = intent

\* C19: an utterance whose lower-cased text contains an hours keyword (open, close,
\* hours, time, when, what time, what are your hours) and no greeting keyword is
\* classified with primary_intent hours_inquiry.
C19_HoursKeywordGivesHoursInquiry ==
    analysis # None =>
        LET message_lower == lower(utterance)
        IN (/\ any_keyword_in(message_lower, HoursKeywords)
            /\ ~any_keyword_in(message_lower, GreetingKeywords))
               => analysis.primary_intent = "hours_inquiry"

\* An utterance with the keyword in capitals and a second intent is an hours inquiry.
C19_Witness ==
    /\ analysis # None
    /\ analysis.primary_intent = "hours_inquiry"
    /\ Len(analysis.all_detected_intents) >= 2
    /\ ~any_keyword_in(utterance, HoursKeywords)

\* C20: all_detected_intents is never empty, has no intent twice, and holds exactly
\* the intents with a keyword that is a substring of the lower-cased utterance, in
\* the order of the keyword table; it is <<general_inquiry>> exactly when no keyword
\* matches; primary_intent is its first element.
C20_DetectedIntents ==
    analysis # None =>
        LET message_lower == lower(utterance)
            detected == analysis.all_detected_intents
            matched == {i \in 1..Len(intent_keywords) :
                            any_keyword_in(message_lower, intent_keywords[i].keywords)}
        IN /\ [i \in 1..Len(intent_keywords) |-> intent_keywords[i].intent] = IntentOrder
           /\ Len(detected) >= 1
           /\ \A p, q \in 1..Len(detected) : p # q => detected[p] # detected[q]
           /\ analysis.primary_intent = detected[1]
           /\ IF matched = {}
              THEN detected = <<"general_inquiry">>
              ELSE /\ {detected[p] : p \in 1..Len(detected)} = {IntentOrder[i] : i \in matched}
                   /\ \A p, q \in 1..Len(detected) :
                          p < q => position(detected[p]) < position(detected[q])

\* An utterance is classified with three intents or more, the second one by a
\* keyword that is not the first of its intent.
C20_Witness ==
    /\ analysis # None
    /\ Len(analysis.all_detected_intents) >= 3
    /\ \E i \in 1..Len(intent_keywords) :
           /\ analysis.all_detected_intents[2] = intent_keywords[i].intent
           /\ ~contains(lower(utterance), intent_keywords[i].keywords[1])

-----------------------------------------------------------------------------
(* Properties of the response generator *)

\* The intent generate_response dispatches on: that of the analysis handed in, or of
\* the message when no analysis is handed in.
dispatched_on(user_message, intent_analysis) ==
    IF intent_analysis = None
    THEN analyze_intent(user_message).primary_intent
    ELSE intent_analysis.primary_intent

ScriptedIntents == {IntentOrder[i] : i \in 1..Len(IntentOrder)}

TRANSFER_OFFER == "I'd be happy to connect you with our staff who can help you with that."

\* The reply of each scripted intent, written out for the restaurant facts of the model.
scripted_reply(primary_intent) ==
    CASE primary_intent = "greeting" ->
            "Hello! Thank you for calling Your Restaurant Name. How can I assist you today?"
      [] primary_intent = "hours_inquiry" -> "We are open from 10 am to 10 pm daily."
      [] primary_intent = "location_inquiry" ->
            "We are located at 123 Restaurant Street, City, State 12345."
      [] primary_intent = "menu_inquiry" ->
            "We offer Appetizers, Main Courses, Desserts, Beverages. For more details, please speak with our staff."
      [] primary_intent \in {"order_request", "reservation_request", "complaint"} -> TRANSFER_OFFER
      [] primary_intent = "delivery_inquiry" ->
            "We offer delivery within a 5-mile radius from 11 AM to 9 PM."
      [] primary_intent = "closing" ->
            "Thank you for calling Your Restaurant Name. Have a great day!"
      [] primary_intent = "contact_staff" ->
            "I'll connect you with our staff who can better assist you."

\* C22: generate_response dispatches on primary_intent alone: for each of the ten
\* intents of the keyword table the reply is the sentence of that intent, whatever the
\* utterance, the history and the other detected intents are, and order_request,
\* reservation_request and complaint have the same staff-transfer offer; the reply is
\* the one of the fallback responder only when primary_intent is general_inquiry or
\* a tag that is not in the table.
C22_DispatchOnPrimaryIntent ==
    \A i \in 1..Len(replies) :
        LET primary_intent == dispatched_on(utterance, analysis)
        IN IF primary_intent \in ScriptedIntents
           THEN replies[i] = scripted_reply(primary_intent)
           ELSE /\ primary_intent \in {"general_inquiry", "small_talk"}
                /\ replies[i] = _generate_mock_response(utterance, primary_intent)

\* A greeting was handed in for a message that asks for the hours, with a second
\* detected intent and a history, and the greeting sentence came back.
C22_Witness ==
    /\ replies # <<>>
    /\ analysis # None
    /\ analysis.primary_intent = "greeting"
    /\ Len(analysis.all_detected_intents) = 2
    /\ given_history # <<>>
    /\ contains(lower(utterance), "open")
    /\ replies[1] = scripted_reply("greeting")

\* The tests of the fallback responder in their order, and the sentence of each.
FallbackGroups ==
    << [keywords |-> {"open", "hour"}, sentence |-> "We are open from 10 am to 10 pm daily."],
       [keywords |-> {"where", "address"},
        sentence |-> "We are located at 123 Restaurant Street, City, State 12345."],
       [keywords |-> {"menu", "food"},
        sentence |-> "We offer Appetizers, Main Courses, Desserts, Beverages."],
       [keywords |-> {"order", "delivery"},
        sentence |-> "I'd be happy to connect you with our staff who can help you place your order."] >>

FALLBACK_DEFAULT ==
    "Thank you for calling Your Restaurant Name. We are open from 10 am to 10 pm daily."

matching_groups(text) ==
    {g \in 1..Len(FallbackGroups) :
        \E keyword \in FallbackGroups[g].keywords : contains(lower(text), keyword)}

\* C23: the fallback responder decides from the lower-cased utterance alone, whatever
\* the analysis is: of the groups open/hour, where/address, menu/food, order/delivery
\* the first one, in this order, with a keyword that is a substring of it gives the
\* sentence (hours, address, category list, staff-connect-for-order); when no group
\* matches the reply is the default thank-you-plus-hours sentence.
C23_FallbackFirstMatchWins ==
    \A i \in 1..Len(replies) :
        dispatched_on(utterance, analysis) \notin ScriptedIntents =>
            LET matching == matching_groups(utterance)
            IN IF matching = {}
               THEN replies[i] = FALLBACK_DEFAULT
               ELSE \E g \in matching :
                        /\ \A h \in matching : g <= h
                        /\ replies[i] = FallbackGroups[g].sentence

\* The fallback answered a message with a keyword of the menu group and one of the
\* order group, under an analysis that lists a second intent: the category list.
C23_Witness ==
    /\ replies # <<>>
    /\ analysis # None
    /\ analysis.primary_intent = "general_inquiry"
    /\ Len(analysis.all_detected_intents) = 2
    /\ matching_groups(utterance) = {3, 4}
    /\ replies[1] = FallbackGroups[3].sentence

\* C24, as stated: for "What time do you open?" and for every utterance whose
\* primary_intent is hours_inquiry the reply contains the configured hours text,
\* restaurant_info.hours; for "What time do you open?" primary_intent is hours_inquiry
\* and escalation_needed is false.
C24_ReplyContainsConfiguredHours ==
    /\ (analysis # None /\ utterance = "What time do you open?") =>
           /\ analysis.primary_intent = "hours_inquiry"
           /\ ~analysis.escalation_needed
    /\ (reply # "" /\ analysis.primary_intent = "hours_inquiry") =>
           contains(reply, restaurant_info.hours)

\* C24, amended: for "What time do you open?" and for every utterance whose
\* primary_intent is hours_inquiry the reply contains the configured hours text in
\* lower case; for "What time do you open?" primary_intent is hours_inquiry and
\* escalation_needed is false.
C24_ReplyContainsLowerCasedHours ==
    /\ (analysis # None /\ utterance = "What time do you open?") =>
           /\ analysis.primary_intent = "hours_inquiry"
           /\ ~analysis.escalation_needed
    /\ (reply # "" /\ analysis.primary_intent = "hours_inquiry") =>
           /\ contains(reply, lower(restaurant_info.hours))
           /\ lower(restaurant_info.hours) # restaurant_info.hours

\* "What time do you open?" has been classified and answered.
C24_Witness ==
    /\ utterance = "What time do you open?"
    /\ analysis # None
    /\ analysis.primary_intent = "hours_inquiry"
    /\ reply = "We are open from 10 am to 10 pm daily."

-----------------------------------------------------------------------------
(* Properties of the session query *)

\* The step is one GET /api/session/{call_sid}; log' then holds the call_sid asked for.
QueryStep == tasks' = tasks /\ log'.handler = "session"

\* C25: querying a call_sid returns that session's call_sid, conversation_history,
\* caller_info, escalation_needed and call_summary and changes no session and not the
\* registry; querying a call_sid the registry does not hold reports not-found and
\* creates no session.
C25_SessionQueryIsReadOnly ==
    [][QueryStep =>
        LET call_sid == log'.form.call_sid
        IN /\ sessions' = sessions
           /\ IF call_sid \in DOMAIN sessions
              THEN /\ response'.status = 200
                   /\ response'.json =
                          [ call_sid             |-> call_sid,
                            conversation_history |-> sessions[call_sid].conversation_history,
                            caller_info          |-> sessions[call_sid].caller_info,
                            escalation_needed    |-> sessions[call_sid].escalation_needed,
                            call_summary         |-> sessions[call_sid].call_summary ]
              ELSE /\ response'.status = 404
                   /\ response'.json = [detail |-> "Session not found"]
                   /\ call_sid \notin DOMAIN sessions'
    ]_vars

\* A call_sid that the registry does not hold was asked for while another call had a
\* session with an answered speech result.
C25_Witness ==
    /\ log.handler = "session"
    /\ response.status = 404
    /\ log.form.call_sid \notin DOMAIN sessions
    /\ \E other \in DOMAIN sessions : Len(sessions[other].conversation_history) = 2

-----------------------------------------------------------------------------
(* Properties of the speech services *)

\* speech_to_text cannot give the transcript: no client, the download fails, the
\* transcription fails, or the temporary file cannot be removed.
transcription_failed(services) ==
    \/ services.openai_client = "None"
    \/ services.get # "200"
    \/ services.transcription.raises
    \/ services.unlink_raises

\* C26: neither speech_to_text nor text_to_speech lets a failure out: on every
\* failure path speech_to_text returns the empty transcript, which the speech webhook
\* takes for a clarifying speech result (`not speech_result`), and text_to_speech
\* returns None without raising.
C26_SpeechServicesDoNotRaise ==
    /\ stt # None =>
           /\ ~stt.result.raised
           /\ transcription_failed(stt.services) =>
                  /\ stt.result.value = ""
                  /\ ~truthy(Str(stt.result.value))
                  /\ Clarifying([SpeechResult |-> Str(stt.result.value), Confidence |-> "0.5"])
           /\ ~transcription_failed(stt.services) =>
                  stt.result.value = stt.services.transcription.text
    /\ tts # None =>
           /\ ~tts.result.raised
           /\ tts.post # "200" => tts.result.value = None

\* The transcription raised after a good download, and the synthesis was answered 500.
C26_Witness ==
    /\ stt # None
    /\ stt.services.openai_client = "OpenAI"
    /\ stt.services.get = "200"
    /\ stt.services.transcription.raises
    /\ stt.result = Return("")
    /\ tts # None
    /\ tts.post = "500"
    /\ tts.result = Return(None)

-----------------------------------------------------------------------------
(* Properties of the confidence threshold *)

\* C27: a speech result is answered with the request to repeat if and only if its
\* text is empty or its confidence is strictly below 0.5: non-empty text with
\* confidence exactly 0.5 is answered (reply or transfer) and its exchange is
\* appended, and non-empty text without a Confidence field has the confidence "0.0"
\* and is answered with the request to repeat.
C27_ClarifyingIffEmptyOrBelowHalf ==
    [][SpeechStep =>
        LET form == log'.form
            before == history_of(sessions, form.CallSid)
            after == history_of(sessions', form.CallSid)
        IN /\ effect(response') = "clarify-and-listen"
                  <=> (form.SpeechResult = Str("") \/ form.Confidence \in BelowHalf)
           /\ (form.SpeechResult.type = "str" /\ form.SpeechResult.value # "") =>
                  /\ form.Confidence = "0.5" =>
                         /\ effect(response') \in {"prompt-and-listen", "escalate-to-number"}
                         /\ after = before \o exchange(form.SpeechResult.value)
                  /\ form.Confidence = "0.0" =>
                         /\ effect(response') = "clarify-and-listen"
                         /\ after = before
    ]_vars

\* A call that had a speech result answered at confidence 0.5 is asked to repeat a
\* non-empty speech result that came without a Confidence field.
C27_Witness ==
    /\ log.handler = "speech"
    /\ log.form.SpeechResult.type = "str"
    /\ log.form.SpeechResult.value # ""
    /\ log.form.Confidence = "0.0"
    /\ effect(response) = "clarify-and-listen"
    /\ Len(history_of(sessions, log.form.CallSid)) = 2

-----------------------------------------------------------------------------
(* Properties of the order in get_ai_response *)

\* C28, as stated: for a usable speech result the steps are classify, append the user
\* turn, generate the reply, append the assistant turn: the history handed to
\* generate_response ends with the user turn of the current utterance.
C28_GeneratorSeesCurrentUserTurn ==
    [][(SpeechStep /\ Usable(log'.form)) =>
        LET form == log'.form
            before == history_of(sessions, form.CallSid)
        IN /\ generator_call' # None
           /\ generator_call'.user_message = form.SpeechResult.value
           /\ generator_call'.conversation_history =
                  Append(before, [role |-> "user", content |-> form.SpeechResult.value])
    ]_vars

\* C28, amended: for a usable speech result the steps are classify, generate the
\* reply, append the user turn, append the assistant turn: the history handed to
\* generate_response is the history of the call as it was before the speech result,
\* without the current utterance, and the two turns are appended after it.
C28_GeneratorSeesHistoryBeforeUserTurn ==
    [][(SpeechStep /\ Usable(log'.form)) =>
        LET form == log'.form
            before == history_of(sessions, form.CallSid)
            after == history_of(sessions', form.CallSid)
        IN /\ generator_call' # None
           /\ generator_call'.user_message = form.SpeechResult.value
           /\ generator_call'.conversation_history = before
           /\ after = generator_call'.conversation_history \o exchange(form.SpeechResult.value)
    ]_vars

\* The second speech result of a call was answered: generate_response was handed the
\* first exchange and nothing else.
C28_Witness ==
    /\ log.handler = "speech"
    /\ Usable(log.form)
    /\ generator_call # None
    /\ Len(generator_call.conversation_history) = 2
    /\ generator_call.conversation_history[2].role = "assistant"
    /\ Len(history_of(sessions, log.form.CallSid)) = 4

-----------------------------------------------------------------------------
(* Properties of the classifier and the fallback responder together *)

ORDER_SENTENCE == "I'd be happy to connect you with our staff who can help you place your order."

\* C29, as stated: there is an utterance that analyze_intent classifies with
\* primary_intent general_inquiry while the fallback responder finds "order" in it
\* and returns the staff-connect-for-order sentence (the utterance at hand, or any
\* other one the agent can be handed).
C29_FallbackDetectsOrderUnderGeneralInquiry ==
    \E u \in {utterance} \cup Utterances :
        /\ contains(lower(u), "order")
        /\ analyze_intent(u).primary_intent = "general_inquiry"
        /\ _generate_mock_response(u, "general_inquiry") = ORDER_SENTENCE

\* C29, amended: the classifier and the fallback responder disagree on "hour" only.
\* An utterance that analyze_intent classifies with primary_intent general_inquiry
\* holds neither "order" nor "delivery", both keywords of order_request, and its
\* reply is never the staff-connect-for-order sentence: it is the hours sentence when
\* the utterance holds "hour", and the default sentence otherwise.
C29_FallbackDisagreesOnHourOnly ==
    (analysis # None /\ analysis.primary_intent = "general_inquiry") =>
        LET message_lower == lower(utterance)
        IN /\ ~contains(message_lower, "order")
           /\ ~contains(message_lower, "delivery")
           /\ _generate_mock_response(utterance, analysis.primary_intent) # ORDER_SENTENCE
           /\ reply # "" =>
                  reply = IF contains(message_lower, "hour")
                          THEN FallbackGroups[1].sentence
                          ELSE FALLBACK_DEFAULT

\* An utterance classified general_inquiry was answered with the hours sentence.
C29_Witness ==
    /\ analysis # None
    /\ analysis.primary_intent = "general_inquiry"
    /\ contains(lower(utterance), "hour")
    /\ reply = FallbackGroups[1].sentence

-----------------------------------------------------------------------------
(* Properties of the turns *)

\* C30: in every reachable state the conversation_history of every session has even
\* length and alternates user, assistant, user, assistant, ..., each assistant turn
\* holding the generated reply to the user turn before it, whatever the order in
\* which call starts, speech results and call statuses are handled.
C30_HistoryAlternates ==
    \A call_sid \in DOMAIN sessions :
        LET turns == sessions[call_sid].conversation_history
        IN /\ Len(turns) % 2 = 0
           /\ \A i \in 1..Len(turns) :
                  IF i % 2 = 1
                  THEN turns[i].role = "user"
                  ELSE /\ turns[i].role = "assistant"
                       /\ turns[i].content = reply_to(turns[i - 1].content)

\* Two calls have a session, one with two exchanges on different utterances, while a
\* request is in flight.
C30_Witness ==
    /\ in_flight > 0
    /\ \E call_sid, other \in DOMAIN sessions :
           /\ call_sid # other
           /\ Len(sessions[call_sid].conversation_history) = 4
           /\ sessions[call_sid].conversation_history[1].content
                  # sessions[call_sid].conversation_history[3].content

-----------------------------------------------------------------------------
(* Properties of the escalation flag and the call summary *)

\* C31: between the handlers, a session has a call_summary if and only if its
\* escalation_needed is true, and the conversation_length of the summary is the
\* length its conversation_history has now: the summary is written again by every
\* speech result that is answered after the escalation.
C31_SummaryIffEscalated ==
    \A call_sid \in DOMAIN sessions :
        LET session == sessions[call_sid]
        IN /\ session.call_summary # None <=> session.escalation_needed
           /\ session.call_summary # None =>
                  /\ session.call_summary.conversation_length = Len(session.conversation_history)
                  /\ session.call_summary.call_sid = call_sid

\* A call that was escalated by its first speech result has answered a second one:
\* its summary counts the four turns.
C31_Witness ==
    \E call_sid \in DOMAIN sessions :
        LET session == sessions[call_sid]
        IN /\ session.escalation_needed
           /\ Len(session.conversation_history) = 4
           /\ classified(session.conversation_history[1].content).escalation_needed
           /\ session.call_summary # None
           /\ session.call_summary.conversation_length = 4

\* C32: in every reachable state a session's escalation_needed is true if and only
\* if at least one user turn of its conversation_history holds an utterance that
\* analyze_intent marks with escalation_needed.
C32_EscalatedIffSomeUserTurnEscalates ==
    \A call_sid \in DOMAIN sessions :
        LET turns == sessions[call_sid].conversation_history
        IN sessions[call_sid].escalation_needed
              <=> \E i \in 1..Len(turns) :
                      /\ turns[i].role = "user"
                      /\ classified(turns[i].content).escalation_needed

\* A session is escalated by its first user turn and holds a later user turn that
\* does not escalate, while another session is not escalated.
C32_Witness ==
    \E call_sid, other \in DOMAIN sessions :
        /\ sessions[call_sid].escalation_needed
        /\ Len(sessions[call_sid].conversation_history) = 4
        /\ classified(sessions[call_sid].conversation_history[1].content).escalation_needed
        /\ ~classified(sessions[call_sid].conversation_history[3].content).escalation_needed
        /\ ~sessions[other].escalation_needed

-----------------------------------------------------------------------------
(* Properties of the keywords order_request and delivery_inquiry share *)

SharedDeliveryKeywords == <<"delivery", "takeout", "take out">>

OwnDeliveryKeywords == <<"pickup", "pick up", "carryout">>

keywords_of(intent) ==
    intent_keywords[CHOOSE i \in 1..Len(intent_keywords) : intent_keywords[i].intent = intent].keywords

\* C33: order_request comes before delivery_inquiry in the keyword table and both
\* have the keywords delivery, takeout and take out; so every utterance that holds
\* one of the three has order_request among its detected intents, has
\* escalation_needed true and does not have primary_intent delivery_inquiry, and the
\* delivery-policy reply is given only to utterances that hold pickup, pick up or
\* carryout and none of the three.
C33_SharedDeliveryKeywordsGiveOrderRequest ==
    analysis # None =>
        LET message_lower == lower(utterance)
            shared == any_keyword_in(message_lower, SharedDeliveryKeywords)
        IN /\ position("order_request") < position("delivery_inquiry")
           /\ \A k \in 1..Len(SharedDeliveryKeywords) :
                  /\ in_list(SharedDeliveryKeywords[k], keywords_of("order_request"))
                  /\ in_list(SharedDeliveryKeywords[k], keywords_of("delivery_inquiry"))
           /\ shared =>
                  /\ in_list("order_request", analysis.all_detected_intents)
                  /\ in_list("delivery_inquiry", analysis.all_detected_intents)
                  /\ analysis.escalation_needed
                  /\ analysis.primary_intent # "delivery_inquiry"
           /\ (reply # "" /\ shared) => reply # scripted_reply("delivery_inquiry")
           /\ (analysis.primary_intent = "delivery_inquiry"
                   \/ reply = scripted_reply("delivery_inquiry")) =>
                  /\ ~shared
                  /\ any_keyword_in(message_lower, OwnDeliveryKeywords)
                  /\ analysis.primary_intent = "delivery_inquiry"

\* An utterance that holds "take out" and "pickup" was classified order_request
\* first and delivery_inquiry second, and was answered with the transfer offer.
C33_Witness ==
    /\ contains(lower(utterance), "take out")
    /\ contains(lower(utterance), "pickup")
    /\ analysis # None
    /\ analysis.all_detected_intents = <<"order_request", "delivery_inquiry">>
    /\ analysis.escalation_needed
    /\ reply = TRANSFER_OFFER

-----------------------------------------------------------------------------
(* Properties of the registry *)

\* The step starts a request: its coroutine suspends at the await.
RequestStep == \E handler \in Handlers : tasks'[handler] = tasks[handler] + 1

\* C34: a call_sid has an entry in the registry if and only if a call start or a
\* speech result for it (a clarifying one included) has been handled since the last
\* terminal call status handled for it, or since the process started.  Step by step:
\* the registry starts empty; a call start or a speech result adds the entry of its
\* call_sid if it is not there; a terminal call status removes the entry of its
\* call_sid; a call status that is not terminal, a session query and the arrival of
\* a request leave the entries as they are; no step touches the entry of another
\* call_sid.
C34_EntryIffEventSinceTermination ==
    /\ DOMAIN sessions = {}
    /\ [][
           /\ (VoiceStep \/ SpeechStep) =>
                  DOMAIN sessions' = DOMAIN sessions \cup {log'.form.CallSid}
           /\ StatusStep =>
                  DOMAIN sessions' =
                      IF log'.form.CallStatus \in TerminalStatuses
                      THEN DOMAIN sessions \ {log'.form.CallSid}
                      ELSE DOMAIN sessions
           /\ (QueryStep \/ RequestStep) => DOMAIN sessions' = DOMAIN sessions
       ]_vars

\* After a terminal call status of a call, a clarifying speech result of the same call
\* has given it a new, empty session, while the other call keeps its session and turns.
C34_Witness ==
    /\ log.handler = "speech"
    /\ Clarifying(log.form)
    /\ log.form.CallSid \in DOMAIN sessions
    /\ sessions[log.form.CallSid] = CallSession(log.form.CallSid)
    /\ \E other \in DOMAIN sessions :
           /\ other # log.form.CallSid
           /\ Len(sessions[other].conversation_history) = 4

=============================================================================
